---- MODULE Spec2Model ----
(***************************************************************************)
(* Onboard optical-flow driver (libraries/AP_HAL_Linux/                    *)
(* OpticalFlow_Onboard.cpp): the acquisition thread (_run_optflow) and the *)
(* sample reader (read), sharing the flow integrator under _mutex.         *)
(*                                                                         *)
(* Numbers.  The driver accumulates floats; the model keeps integers and   *)
(* draws its inputs so that every division of the code is exact: flow      *)
(* rates are multiples of the focal-length divisor and angular rates are   *)
(* even, so x / FOCAL and (a + b) / 2.0f lose nothing.  Timestamps and the *)
(* integration timespan are uint32_t; a bounded run never reaches 2^32.    *)
(***************************************************************************)
EXTENDS Integers, Sequences, FiniteSets, TLC

(* ------------------------------ bounds -------------------------------- *)

\* frames the Frame Source delivers in one run
MaxFrames == 3

\* read() calls the consumer makes in one run
MaxReads == 2

(* ----------------------------- constants ------------------------------ *)

\* divisor of the flow rates (board configuration macro; the value is a
\* stand-in, the board header is not part of these sources)
HAL_FLOW_PX4_FOCAL_LENGTH_MILLIPX == 4

\* a null data pointer
NULL == 0

\* VideoIn::Frame: the buffer handle and its timestamp
NoFrame == [data |-> NULL, timestamp |-> 0]

\* Vector3f() / Vector2f(): the zero vector
ZeroRate == [x |-> 0, y |-> 0, z |-> 0]

\* gaps between the timestamps of two frames the Frame Source delivers
FrameGaps == {1, 2}

\* what the gyro callback can answer (rad/s, even: see Numbers)
GyroSamples ==
    { [x |-> 2, y |-> 0, z |-> 0], [x |-> -2, y |-> 4, z |-> 2] }

\* what compute_flow can answer: the flow rates and the quality
FlowResults ==
    { [x |-> HAL_FLOW_PX4_FOCAL_LENGTH_MILLIPX,
       y |-> 0 - 2 * HAL_FLOW_PX4_FOCAL_LENGTH_MILLIPX, qual |-> 7],
      [x |-> 0, y |-> HAL_FLOW_PX4_FOCAL_LENGTH_MILLIPX, qual |-> 3] }

\* AP_HAL::OpticalFlow::Data_Frame as the caller passes it in
BlankFrame ==
    [pixel_flow_x_integral |-> 0, pixel_flow_y_integral |-> 0,
     gyro_x_integral |-> 0, gyro_y_integral |-> 0,
     delta_time |-> 0, quality |-> 0]

(* ------------------------------- state -------------------------------- *)

VARIABLES
    \* Flow Integrator State (members of OpticalFlow_Onboard)
    _pixel_flow_x_integral, _pixel_flow_y_integral,
    _gyro_x_integral, _gyro_y_integral,
    _integration_timespan, _surface_quality, _data_available,
    \* pthread mutex: "free", "acq" or "reader"
    _mutex,
    \* previous-frame cache (members)
    _last_video_frame, _last_gyro_rate,
    \* locals of _run_optflow and its position
    video_frame, gyro_rate, flow_rate, qual, apc,
    \* read(): the caller's record, the local ret and the position
    frame, ret, rpc,
    \* Frame Source: frames delivered, its clock (the start time, then the
    \* timestamp of the last frame), frames given back with put_frame,
    \* whether get_frame has reported a failure
    nframes, clock, released, get_frame_failed,
    \* history, for stating the properties:
    \*   pending         the iterations that took the lock since the last
    \*                   successful drain took it, oldest first
    \*   ncompute        compute_flow calls so far
    \*   naccum          accumulations (lines 372-387) completed so far
    \*   nreads          read() calls so far
    \*   seen            Len(pending) when read() last took the lock
    \*   at_lock         the integrator when read() last took the lock
    \*   iter_since_read an iteration took the lock since read() last
    \*                   returned
    \*   gyro_of         the frame at whose processing the gyro callback
    \*                   gave _last_gyro_rate (NULL: the callback never did)
    \*   served          the frames compute_flow has been given as its
    \*                   previous frame
    pending, ncompute, naccum, nreads, seen, at_lock, iter_since_read,
    gyro_of, served

integ == << _pixel_flow_x_integral, _pixel_flow_y_integral,
            _gyro_x_integral, _gyro_y_integral,
            _integration_timespan, _surface_quality, _data_available >>

cache == << _last_video_frame, _last_gyro_rate, gyro_of >>

acq_locals == << video_frame, gyro_rate, flow_rate, qual >>

reader_vars == << frame, ret, rpc, nreads, seen, at_lock >>

source_vars == << nframes, clock, released, get_frame_failed >>

run_vars == << integ, _mutex, cache, acq_locals, apc, reader_vars,
               source_vars, pending, ncompute, naccum, iter_since_read,
               served >>

(* ---------------- init() and the start of the thread ------------------ *)

\* the fixed target geometry of the frames given to the flow estimator
HAL_OPTFLOW_ONBOARD_OUTPUT_WIDTH == 64
HAL_OPTFLOW_ONBOARD_OUTPUT_HEIGHT == 64

\* the longest list get_pixel_formats answers with
MaxFormats == 3

\* the builds of lines 77-109: BEBOP sets the format of its camera sensor,
\* MINLURE (and BBBMINI, the same branch) picks from the device's list
Boards == {"BEBOP", "MINLURE"}

\* V4L2 pixel formats: the three the driver supports and one it does not
SupportedFormats == {"NV12", "GREY", "YUYV"}
PixelFormats == SupportedFormats \cup {"MJPG"}

\* _format before init() assigns it
NoFormat == "unset"

\* the geometries set_format can report back, as << width, height >>:
\* the target itself, larger ones (multiples of the target or not, wide
\* and tall), one larger in one dimension only, and smaller ones
HardwareGeometries ==
    { << 64, 64 >>, << 128, 128 >>, << 320, 240 >>, << 240, 320 >>,
      << 100, 64 >>, << 32, 32 >>, << 100, 48 >> }

\* no frame normalised yet
NoNorm == [strategy |-> "none"]

VARIABLES
    \* the build, and the position of init() ("panic": AP_HAL::panic)
    board, ipc,
    \* the fatal error init() has met ("none": none so far)
    init_error,
    \* locals of init(): the enumerated formats and the position of the
    \* range-for over them
    pixel_formats, px_idx,
    \* Capture Configuration (members of OpticalFlow_Onboard)
    _format, _width, _height, _shrink_by_software, _crop_by_software,
    _camera_output_width, _camera_output_height, _initialized,
    \* the geometry set_format reported; whether allocate_buffers has
    \* given the video buffers; whether pthread_create has started
    \* _read_thread
    hw_geometry, buffers_allocated, thread_started,
    \* _run_optflow before and at the top of its loop: its position and
    \* the locals of lines 234-236
    tpc, shrink_scale, shrink_width, shrink_height,
    shrink_width_offset, shrink_height_offset, crop_left, crop_top,
    \* what lines 302-328 made of the last frame
    normalized

config == << _format, _width, _height, _shrink_by_software,
             _crop_by_software, _camera_output_width,
             _camera_output_height >>

init_locals == << pixel_formats, px_idx >>

init_progress == << init_error, hw_geometry, buffers_allocated,
                    thread_started, _initialized >>

shrink_crop_params == << shrink_scale, shrink_width, shrink_height,
                         shrink_width_offset, shrink_height_offset,
                         crop_left, crop_top >>

thread_vars == << tpc, shrink_crop_params, normalized >>

setup_vars == << board, ipc, init_locals, config, init_progress,
                 thread_vars >>

vars == << run_vars, setup_vars >>

history == << pending, ncompute, naccum, iter_since_read, served >>

\* the integrator as a Data_Frame-shaped record
Integrator ==
    [pixel_flow_x_integral |-> _pixel_flow_x_integral,
     pixel_flow_y_integral |-> _pixel_flow_y_integral,
     gyro_x_integral |-> _gyro_x_integral,
     gyro_y_integral |-> _gyro_y_integral,
     delta_time |-> _integration_timespan,
     quality |-> _surface_quality]

(* -------------------------- initial state ----------------------------- *)

\* The members as the constructor leaves them (the class declaration is
\* not part of these sources): the integrator zeroed, no previous frame,
\* the previous rate the zero vector.
Constructed ==
    /\ _pixel_flow_x_integral = 0
    /\ _pixel_flow_y_integral = 0
    /\ _gyro_x_integral = 0
    /\ _gyro_y_integral = 0
    /\ _integration_timespan = 0
    /\ _surface_quality = 0
    /\ _data_available = FALSE
    /\ _last_video_frame = NoFrame
    /\ _last_gyro_rate = ZeroRate

\* Capture Configuration and the locals of _run_optflow before init():
\* nothing selected, nothing computed (the locals start at 0, lines
\* 234-236)
Unconfigured ==
    /\ _format = NoFormat
    /\ _width = 0
    /\ _height = 0
    /\ _shrink_by_software = FALSE
    /\ _crop_by_software = FALSE
    /\ _camera_output_width = 0
    /\ _camera_output_height = 0
    /\ _initialized = FALSE
    /\ init_error = "none"
    /\ pixel_formats = << >>
    /\ px_idx = 1
    /\ hw_geometry = << 0, 0 >>
    /\ buffers_allocated = FALSE
    /\ thread_started = FALSE
    /\ tpc = "none"
    /\ shrink_scale = 0
    /\ shrink_width = 0
    /\ shrink_height = 0
    /\ shrink_width_offset = 0
    /\ shrink_height_offset = 0
    /\ crop_left = 0
    /\ crop_top = 0
    /\ normalized = NoNorm

\* init() has returned on a BEBOP whose hardware delivers the target
\* geometry in NV12 and crops by itself: neither shrink nor crop is done
\* in software, and the thread has reached the top of its loop
Configured ==
    /\ board = "BEBOP"
    /\ ipc = "done"
    /\ init_error = "none"
    /\ pixel_formats = << >>
    /\ px_idx = 1
    /\ _format = "NV12"
    /\ _width = HAL_OPTFLOW_ONBOARD_OUTPUT_WIDTH
    /\ _height = HAL_OPTFLOW_ONBOARD_OUTPUT_HEIGHT
    /\ _shrink_by_software = FALSE
    /\ _crop_by_software = FALSE
    /\ _camera_output_width = 0
    /\ _camera_output_height = 0
    /\ _initialized = TRUE
    /\ hw_geometry = << HAL_OPTFLOW_ONBOARD_OUTPUT_WIDTH,
                        HAL_OPTFLOW_ONBOARD_OUTPUT_HEIGHT >>
    /\ buffers_allocated = TRUE
    /\ thread_started = TRUE
    /\ tpc = "get_frame"
    /\ shrink_scale = 0
    /\ shrink_width = 0
    /\ shrink_height = 0
    /\ shrink_width_offset = 0
    /\ shrink_height_offset = 0
    /\ crop_left = 0
    /\ crop_top = 0
    /\ normalized = NoNorm

\* The threads of the driver after a successful init(): the mutex
\* initialised (line 172), the acquisition thread created (line 184) and
\* about to wait for its first frame, no read() under way.
Started ==
    /\ Constructed
    /\ _mutex = "free"
    /\ video_frame = NoFrame
    /\ gyro_rate = ZeroRate
    /\ flow_rate = [x |-> 0, y |-> 0]
    /\ qual = 0
    /\ apc = "get_frame"
    /\ frame = BlankFrame
    /\ ret = FALSE
    /\ rpc = "idle"
    /\ nframes = 0
    /\ clock = 1
    /\ released = {}
    /\ get_frame_failed = FALSE
    /\ pending = << >>
    /\ ncompute = 0
    /\ naccum = 0
    /\ nreads = 0
    /\ seen = 0
    /\ at_lock = [rec |-> BlankFrame, available |-> FALSE]
    /\ iter_since_read = FALSE
    /\ gyro_of = NULL
    /\ served = {}

\* The driver after a successful init(), the thread at the top of its loop
Init == Started /\ Configured

(* ----------------------- the acquisition thread ----------------------- *)

\* AP_HAL::panic ends the process: no thread takes another step
Running == apc # "panic"

\* video_frame.timestamp - _last_video_frame.timestamp (uint32_t; the
\* timestamps of a bounded run stay far below 2^32 and never wrap)
Elapsed(cur, last) == cur.timestamp - last.timestamp

\* the timestamps the next frame can carry: the first frame carries the
\* source's start time, a later one comes a gap after its predecessor
NextTimestamps ==
    IF nframes = 0 THEN {clock} ELSE {clock + dt : dt \in FrameGaps}

\* GetFrame with a failure that is not fatal: the loop asks again
GetFrameRetries ==
    /\ Running
    /\ apc = "get_frame"
    /\ \/ /\ nframes < MaxFrames
          /\ \E t \in NextTimestamps :
                /\ clock' = t
                /\ video_frame' = [data |-> nframes + 1, timestamp |-> t]
          /\ nframes' = nframes + 1
          /\ apc' = "warmup"
          /\ UNCHANGED get_frame_failed
       \/ /\ get_frame_failed' = TRUE
          /\ apc' = "get_frame"
          /\ UNCHANGED << video_frame, nframes, clock >>
    /\ UNCHANGED << integ, _mutex, cache, gyro_rate, flow_rate, qual,
                    reader_vars, released, history >>

\* lines 288-328: wait for the next frame, a failure being fatal, and
\* normalise it in place (conversion to grey, shrink or crop): the handle
\* and the timestamp of the frame stay as the Frame Source gave them
GetFrame ==
    /\ Running
    /\ apc = "get_frame"
    /\ \/ /\ nframes < MaxFrames
          /\ \E t \in NextTimestamps :
                /\ clock' = t
                /\ video_frame' = [data |-> nframes + 1, timestamp |-> t]
          /\ nframes' = nframes + 1
          /\ apc' = "warmup"
          /\ UNCHANGED get_frame_failed
       \/ /\ get_frame_failed' = TRUE
          /\ apc' = "panic"
          /\ UNCHANGED << video_frame, nframes, clock >>
    /\ UNCHANGED << integ, _mutex, cache, gyro_rate, flow_rate, qual,
                    reader_vars, released, history >>

\* WarmupCheck without its continue: the first frame is cached and then
\* processed like any other
WarmupFallsThrough ==
    /\ Running
    /\ apc = "warmup"
    /\ IF _last_video_frame.data = NULL
       THEN _last_video_frame' = video_frame
       ELSE UNCHANGED _last_video_frame
    /\ apc' = "get_gyro"
    /\ UNCHANGED << integ, _mutex, _last_gyro_rate, gyro_of, acq_locals,
                    reader_vars, source_vars, history >>

\* lines 330-335: the first frame is only cached
WarmupCheck ==
    /\ Running
    /\ apc = "warmup"
    /\ IF _last_video_frame.data = NULL
       THEN /\ _last_video_frame' = video_frame
            /\ apc' = "get_frame"
       ELSE /\ apc' = "get_gyro"
            /\ UNCHANGED _last_video_frame
    /\ UNCHANGED << integ, _mutex, _last_gyro_rate, gyro_of, acq_locals,
                    reader_vars, source_vars, history >>

\* lines 337-341: read the gyro through the callback
GetGyro ==
    /\ Running
    /\ apc = "get_gyro"
    /\ \E g \in GyroSamples : gyro_rate' = g
    /\ apc' = "compute_flow"
    /\ UNCHANGED << integ, _mutex, cache, video_frame, flow_rate, qual,
                    reader_vars, source_vars, history >>

\* lines 362-369: flow between the previous and the current frame
ComputeFlow ==
    /\ Running
    /\ apc = "compute_flow"
    /\ \E r \in FlowResults :
          /\ flow_rate' = [x |-> r.x, y |-> r.y]
          /\ qual' = r.qual
    /\ ncompute' = ncompute + 1
    /\ served' = served \cup {_last_video_frame.data}
    /\ apc' = "lock"
    /\ UNCHANGED << integ, _mutex, cache, video_frame, gyro_rate,
                    reader_vars, source_vars, pending, naccum,
                    iter_since_read >>

\* what this iteration is about to add, as the history keeps it
Iteration ==
    [cur_ts |-> video_frame.timestamp,
     last_ts |-> _last_video_frame.timestamp,
     flow_x |-> flow_rate.x, flow_y |-> flow_rate.y,
     gyro |-> gyro_rate, last_gyro |-> _last_gyro_rate,
     qual |-> qual]

\* line 372: pthread_mutex_lock
AcqLock ==
    /\ Running
    /\ apc = "lock"
    /\ _mutex = "free"
    /\ _mutex' = "acq"
    /\ pending' = Append(pending, Iteration)
    /\ iter_since_read' = TRUE
    /\ apc' = "acc_flow_x"
    /\ UNCHANGED << integ, cache, acq_locals, reader_vars, source_vars,
                    ncompute, naccum, served >>

\* lines 373-374
AccFlowX ==
    /\ Running
    /\ apc = "acc_flow_x"
    /\ _pixel_flow_x_integral' = _pixel_flow_x_integral +
           flow_rate.x \div HAL_FLOW_PX4_FOCAL_LENGTH_MILLIPX
    /\ apc' = "acc_flow_y"
    /\ UNCHANGED << _pixel_flow_y_integral, _gyro_x_integral,
                    _gyro_y_integral, _integration_timespan,
                    _surface_quality, _data_available, _mutex, cache,
                    acq_locals, reader_vars, source_vars, history >>

\* lines 375-376
AccFlowY ==
    /\ Running
    /\ apc = "acc_flow_y"
    /\ _pixel_flow_y_integral' = _pixel_flow_y_integral +
           flow_rate.y \div HAL_FLOW_PX4_FOCAL_LENGTH_MILLIPX
    /\ apc' = "acc_timespan"
    /\ UNCHANGED << _pixel_flow_x_integral, _gyro_x_integral,
                    _gyro_y_integral, _integration_timespan,
                    _surface_quality, _data_available, _mutex, cache,
                    acq_locals, reader_vars, source_vars, history >>

\* AccTimespan with the unlock of line 387 moved up to here
AccTimespanUnlocksEarly ==
    /\ Running
    /\ apc = "acc_timespan"
    /\ _integration_timespan' =
           _integration_timespan + Elapsed(video_frame, _last_video_frame)
    /\ _mutex' = "free"
    /\ apc' = "acc_gyro_x"
    /\ UNCHANGED << _pixel_flow_x_integral, _pixel_flow_y_integral,
                    _gyro_x_integral, _gyro_y_integral,
                    _surface_quality, _data_available, cache,
                    acq_locals, reader_vars, source_vars, history >>

\* AccTimespan with = for +=
AccTimespanOverwrites ==
    /\ Running
    /\ apc = "acc_timespan"
    /\ _integration_timespan' = Elapsed(video_frame, _last_video_frame)
    /\ apc' = "acc_gyro_x"
    /\ UNCHANGED << _pixel_flow_x_integral, _pixel_flow_y_integral,
                    _gyro_x_integral, _gyro_y_integral,
                    _surface_quality, _data_available, _mutex, cache,
                    acq_locals, reader_vars, source_vars, history >>

\* lines 377-378
AccTimespan ==
    /\ Running
    /\ apc = "acc_timespan"
    /\ _integration_timespan' =
           _integration_timespan + Elapsed(video_frame, _last_video_frame)
    /\ apc' = "acc_gyro_x"
    /\ UNCHANGED << _pixel_flow_x_integral, _pixel_flow_y_integral,
                    _gyro_x_integral, _gyro_y_integral,
                    _surface_quality, _data_available, _mutex, cache,
                    acq_locals, reader_vars, source_vars, history >>

\* lines 379-381
AccGyroX ==
    /\ Running
    /\ apc = "acc_gyro_x"
    /\ _gyro_x_integral' = _gyro_x_integral +
           ((gyro_rate.x + _last_gyro_rate.x) \div 2) *
               Elapsed(video_frame, _last_video_frame)
    /\ apc' = "acc_gyro_y"
    /\ UNCHANGED << _pixel_flow_x_integral, _pixel_flow_y_integral,
                    _gyro_y_integral, _integration_timespan,
                    _surface_quality, _data_available, _mutex, cache,
                    acq_locals, reader_vars, source_vars, history >>

\* lines 382-384
AccGyroY ==
    /\ Running
    /\ apc = "acc_gyro_y"
    /\ _gyro_y_integral' = _gyro_y_integral +
           ((gyro_rate.y + _last_gyro_rate.y) \div 2) *
               Elapsed(video_frame, _last_video_frame)
    /\ apc' = "set_quality"
    /\ UNCHANGED << _pixel_flow_x_integral, _pixel_flow_y_integral,
                    _gyro_x_integral, _integration_timespan,
                    _surface_quality, _data_available, _mutex, cache,
                    acq_locals, reader_vars, source_vars, history >>

\* SetQuality adding the score to the stored one, as the accumulators do
SetQualityAccumulates ==
    /\ Running
    /\ apc = "set_quality"
    /\ _surface_quality' = _surface_quality + qual
    /\ apc' = "set_available"
    /\ UNCHANGED << _pixel_flow_x_integral, _pixel_flow_y_integral,
                    _gyro_x_integral, _gyro_y_integral,
                    _integration_timespan, _data_available, _mutex, cache,
                    acq_locals, reader_vars, source_vars, history >>

\* line 385
SetQuality ==
    /\ Running
    /\ apc = "set_quality"
    /\ _surface_quality' = qual
    /\ apc' = "set_available"
    /\ UNCHANGED << _pixel_flow_x_integral, _pixel_flow_y_integral,
                    _gyro_x_integral, _gyro_y_integral,
                    _integration_timespan, _data_available, _mutex, cache,
                    acq_locals, reader_vars, source_vars, history >>

\* SetAvailable leaving the flag as it is: the accumulation goes unmarked
SetAvailableSkipped ==
    /\ Running
    /\ apc = "set_available"
    /\ _data_available' = _data_available
    /\ apc' = "unlock"
    /\ UNCHANGED << _pixel_flow_x_integral, _pixel_flow_y_integral,
                    _gyro_x_integral, _gyro_y_integral,
                    _integration_timespan, _surface_quality, _mutex, cache,
                    acq_locals, reader_vars, source_vars, history >>

\* line 386
SetAvailable ==
    /\ Running
    /\ apc = "set_available"
    /\ _data_available' = TRUE
    /\ apc' = "unlock"
    /\ UNCHANGED << _pixel_flow_x_integral, _pixel_flow_y_integral,
                    _gyro_x_integral, _gyro_y_integral,
                    _integration_timespan, _surface_quality, _mutex, cache,
                    acq_locals, reader_vars, source_vars, history >>

\* AcqUnlock without the pthread_mutex_unlock
AcqUnlockKeepsMutex ==
    /\ Running
    /\ apc = "unlock"
    /\ naccum' = naccum + 1
    /\ apc' = "put_frame"
    /\ UNCHANGED << integ, _mutex, cache, acq_locals, reader_vars,
                    source_vars, pending, ncompute, iter_since_read,
                    served >>

\* line 387: pthread_mutex_unlock
AcqUnlock ==
    /\ Running
    /\ apc = "unlock"
    /\ _mutex' = "free"
    /\ naccum' = naccum + 1
    /\ apc' = "put_frame"
    /\ UNCHANGED << integ, cache, acq_locals, reader_vars, source_vars,
                    pending, ncompute, iter_since_read, served >>

\* PutFrame giving back the frame just processed instead of the cached one
PutFrameCurrent ==
    /\ Running
    /\ apc = "put_frame"
    /\ released' = released \cup {video_frame.data}
    /\ apc' = "promote"
    /\ UNCHANGED << integ, _mutex, cache, acq_locals, reader_vars,
                    nframes, clock, get_frame_failed, history >>

\* lines 389-390: give the last frame back to the video input driver
PutFrame ==
    /\ Running
    /\ apc = "put_frame"
    /\ released' = released \cup {_last_video_frame.data}
    /\ apc' = "promote"
    /\ UNCHANGED << integ, _mutex, cache, acq_locals, reader_vars,
                    nframes, clock, get_frame_failed, history >>

\* lines 391-392: the current frame and rate become the previous ones
Promote ==
    /\ Running
    /\ apc = "promote"
    /\ _last_video_frame' = video_frame
    /\ _last_gyro_rate' = gyro_rate
    /\ gyro_of' = video_frame.data
    /\ apc' = "get_frame"
    /\ UNCHANGED << integ, _mutex, acq_locals, reader_vars, source_vars,
                    history >>

Acquisition ==
    \/ GetFrame \/ WarmupCheck \/ GetGyro \/ ComputeFlow
    \/ AcqLock \/ AccFlowX \/ AccFlowY \/ AccTimespan \/ AccGyroX
    \/ AccGyroY \/ SetQuality \/ SetAvailable \/ AcqUnlock
    \/ PutFrame \/ Promote

(* ------------------------------ read() -------------------------------- *)

\* the consumer calls read(frame)
ReadCall ==
    /\ Running
    /\ rpc = "idle"
    /\ nreads < MaxReads
    /\ nreads' = nreads + 1
    /\ rpc' = "lock"
    /\ UNCHANGED << integ, _mutex, cache, acq_locals, apc, frame, ret, seen,
                    at_lock, source_vars, history >>

\* line 196: pthread_mutex_lock
ReadLock ==
    /\ Running
    /\ rpc = "lock"
    /\ _mutex = "free"
    /\ _mutex' = "reader"
    /\ seen' = Len(pending)
    /\ at_lock' = [rec |-> Integrator, available |-> _data_available]
    /\ rpc' = "check"
    /\ UNCHANGED << integ, cache, acq_locals, apc, frame, ret, nreads,
                    source_vars, history >>

\* ReadCheck without the test of _data_available
ReadCheckIgnoresFlag ==
    /\ Running
    /\ rpc = "check"
    /\ rpc' = "copy_flow_x"
    /\ UNCHANGED << integ, _mutex, cache, acq_locals, apc, frame, ret,
                    nreads, seen, at_lock, source_vars, history >>

\* lines 197-200: nothing new, leave with false
ReadCheck ==
    /\ Running
    /\ rpc = "check"
    /\ IF ~ _data_available
       THEN /\ ret' = FALSE
            /\ rpc' = "unlock"
       ELSE /\ rpc' = "copy_flow_x"
            /\ UNCHANGED ret
    /\ UNCHANGED << integ, _mutex, cache, acq_locals, apc, frame, nreads,
                    seen, at_lock, source_vars, history >>

\* line 201
ReadCopyFlowX ==
    /\ Running
    /\ rpc = "copy_flow_x"
    /\ frame' = [frame EXCEPT !.pixel_flow_x_integral = _pixel_flow_x_integral]
    /\ rpc' = "copy_flow_y"
    /\ UNCHANGED << integ, _mutex, cache, acq_locals, apc, ret, nreads,
                    seen, at_lock, source_vars, history >>

\* line 202
ReadCopyFlowY ==
    /\ Running
    /\ rpc = "copy_flow_y"
    /\ frame' = [frame EXCEPT !.pixel_flow_y_integral = _pixel_flow_y_integral]
    /\ rpc' = "copy_gyro_x"
    /\ UNCHANGED << integ, _mutex, cache, acq_locals, apc, ret, nreads,
                    seen, at_lock, source_vars, history >>

\* line 203
ReadCopyGyroX ==
    /\ Running
    /\ rpc = "copy_gyro_x"
    /\ frame' = [frame EXCEPT !.gyro_x_integral = _gyro_x_integral]
    /\ rpc' = "copy_gyro_y"
    /\ UNCHANGED << integ, _mutex, cache, acq_locals, apc, ret, nreads,
                    seen, at_lock, source_vars, history >>

\* ReadCopyGyroY copying the x integral
ReadCopyGyroYFromX ==
    /\ Running
    /\ rpc = "copy_gyro_y"
    /\ frame' = [frame EXCEPT !.gyro_y_integral = _gyro_x_integral]
    /\ rpc' = "copy_delta_time"
    /\ UNCHANGED << integ, _mutex, cache, acq_locals, apc, ret, nreads,
                    seen, at_lock, source_vars, history >>

\* line 204
ReadCopyGyroY ==
    /\ Running
    /\ rpc = "copy_gyro_y"
    /\ frame' = [frame EXCEPT !.gyro_y_integral = _gyro_y_integral]
    /\ rpc' = "copy_delta_time"
    /\ UNCHANGED << integ, _mutex, cache, acq_locals, apc, ret, nreads,
                    seen, at_lock, source_vars, history >>

\* line 205
ReadCopyDeltaTime ==
    /\ Running
    /\ rpc = "copy_delta_time"
    /\ frame' = [frame EXCEPT !.delta_time = _integration_timespan]
    /\ rpc' = "copy_quality"
    /\ UNCHANGED << integ, _mutex, cache, acq_locals, apc, ret, nreads,
                    seen, at_lock, source_vars, history >>

\* line 206
ReadCopyQuality ==
    /\ Running
    /\ rpc = "copy_quality"
    /\ frame' = [frame EXCEPT !.quality = _surface_quality]
    /\ rpc' = "zero_timespan"
    /\ UNCHANGED << integ, _mutex, cache, acq_locals, apc, ret, nreads,
                    seen, at_lock, source_vars, history >>

\* ReadZeroTimespan without the assignment
ReadKeepsTimespan ==
    /\ Running
    /\ rpc = "zero_timespan"
    /\ rpc' = "zero_flow_x"
    /\ UNCHANGED << integ, _mutex, cache, acq_locals, apc, frame, ret,
                    nreads, seen, at_lock, source_vars, history >>

\* line 207
ReadZeroTimespan ==
    /\ Running
    /\ rpc = "zero_timespan"
    /\ _integration_timespan' = 0
    /\ rpc' = "zero_flow_x"
    /\ UNCHANGED << _pixel_flow_x_integral, _pixel_flow_y_integral, _gyro_x_integral,
                    _gyro_y_integral, _surface_quality, _data_available,
                    _mutex, cache, acq_locals, apc, frame, ret, nreads,
                    seen, at_lock, source_vars, history >>

\* line 208
ReadZeroFlowX ==
    /\ Running
    /\ rpc = "zero_flow_x"
    /\ _pixel_flow_x_integral' = 0
    /\ rpc' = "zero_flow_y"
    /\ UNCHANGED << _pixel_flow_y_integral, _gyro_x_integral, _gyro_y_integral,
                    _integration_timespan, _surface_quality, _data_available,
                    _mutex, cache, acq_locals, apc, frame, ret, nreads,
                    seen, at_lock, source_vars, history >>

\* line 209
ReadZeroFlowY ==
    /\ Running
    /\ rpc = "zero_flow_y"
    /\ _pixel_flow_y_integral' = 0
    /\ rpc' = "zero_gyro_x"
    /\ UNCHANGED << _pixel_flow_x_integral, _gyro_x_integral, _gyro_y_integral,
                    _integration_timespan, _surface_quality, _data_available,
                    _mutex, cache, acq_locals, apc, frame, ret, nreads,
                    seen, at_lock, source_vars, history >>

\* ReadZeroGyroX without the assignment
ReadKeepsGyroX ==
    /\ Running
    /\ rpc = "zero_gyro_x"
    /\ rpc' = "zero_gyro_y"
    /\ UNCHANGED << integ, _mutex, cache, acq_locals, apc, frame, ret,
                    nreads, seen, at_lock, source_vars, history >>

\* line 210
ReadZeroGyroX ==
    /\ Running
    /\ rpc = "zero_gyro_x"
    /\ _gyro_x_integral' = 0
    /\ rpc' = "zero_gyro_y"
    /\ UNCHANGED << _pixel_flow_x_integral, _pixel_flow_y_integral, _gyro_y_integral,
                    _integration_timespan, _surface_quality, _data_available,
                    _mutex, cache, acq_locals, apc, frame, ret, nreads,
                    seen, at_lock, source_vars, history >>

\* line 211
ReadZeroGyroY ==
    /\ Running
    /\ rpc = "zero_gyro_y"
    /\ _gyro_y_integral' = 0
    /\ rpc' = "clear_available"
    /\ UNCHANGED << _pixel_flow_x_integral, _pixel_flow_y_integral, _gyro_x_integral,
                    _integration_timespan, _surface_quality, _data_available,
                    _mutex, cache, acq_locals, apc, frame, ret, nreads,
                    seen, at_lock, source_vars, history >>

\* ReadClearAvailable without the assignment
ReadKeepsAvailable ==
    /\ Running
    /\ rpc = "clear_available"
    /\ rpc' = "set_ret"
    /\ UNCHANGED << integ, _mutex, cache, acq_locals, apc, frame, ret,
                    nreads, seen, at_lock, source_vars, history >>

\* line 212
ReadClearAvailable ==
    /\ Running
    /\ rpc = "clear_available"
    /\ _data_available' = FALSE
    /\ rpc' = "set_ret"
    /\ UNCHANGED << _pixel_flow_x_integral, _pixel_flow_y_integral,
                    _gyro_x_integral, _gyro_y_integral,
                    _integration_timespan, _surface_quality,
                    _mutex, cache, acq_locals, apc, frame, ret, nreads,
                    seen, at_lock, source_vars, history >>

\* line 213
ReadSetRet ==
    /\ Running
    /\ rpc = "set_ret"
    /\ ret' = TRUE
    /\ rpc' = "unlock"
    /\ UNCHANGED << integ, _mutex, cache, acq_locals, apc, frame, nreads,
                    seen, at_lock, source_vars, history >>

\* lines 214-216: pthread_mutex_unlock and return ret; a successful drain
\* has consumed the iterations that were pending when it took the lock
ReadUnlock ==
    /\ Running
    /\ rpc = "unlock"
    /\ _mutex' = "free"
    /\ rpc' = "idle"
    /\ pending' = IF ret THEN SubSeq(pending, seen + 1, Len(pending))
                         ELSE pending
    /\ iter_since_read' = FALSE
    /\ UNCHANGED << integ, cache, acq_locals, apc, frame, ret, nreads,
                    seen, at_lock, source_vars, ncompute, naccum,
                    served >>

Read ==
    \/ ReadCall \/ ReadLock \/ ReadCheck
    \/ ReadCopyFlowX \/ ReadCopyFlowY \/ ReadCopyGyroX \/ ReadCopyGyroY
    \/ ReadCopyDeltaTime \/ ReadCopyQuality
    \/ ReadZeroTimespan \/ ReadZeroFlowX \/ ReadZeroFlowY
    \/ ReadZeroGyroX \/ ReadZeroGyroY
    \/ ReadClearAvailable \/ ReadSetRet \/ ReadUnlock

(* --------------------------- specification ---------------------------- *)

\* the threads run with the Capture Configuration init() has left
Next == (Acquisition \/ Read) /\ UNCHANGED setup_vars

Spec == Init /\ [][Next]_vars

(* ------------------------------ init() -------------------------------- *)

\* AP_HAL::panic ends the process: neither init() nor the thread goes on
SetupRunning == ipc # "panic" /\ tpc # "panic"

\* the lists get_pixel_formats can answer with, in every order
FormatLists == UNION {[1..n -> PixelFormats] : n \in 0..MaxFormats}

\* a driver not yet initialised, init() about to be called
SetupInit ==
    /\ Started
    /\ Unconfigured
    /\ board \in Boards
    /\ ipc = "call"

\* lines 53-69: a second init() returns at once; the first asks for the
\* target geometry
InitEnter ==
    /\ SetupRunning
    /\ ipc = "call"
    /\ IF _initialized
       THEN /\ ipc' = "done"
            /\ UNCHANGED << _width, _height >>
       ELSE /\ _width' = HAL_OPTFLOW_ONBOARD_OUTPUT_WIDTH
            /\ _height' = HAL_OPTFLOW_ONBOARD_OUTPUT_HEIGHT
            /\ ipc' = "open_device"
    /\ UNCHANGED << run_vars, board, init_locals, _format,
                    _shrink_by_software, _crop_by_software,
                    _camera_output_width, _camera_output_height,
                    init_progress, thread_vars >>

\* lines 71-75
OpenDevice ==
    /\ SetupRunning
    /\ ipc = "open_device"
    /\ \/ /\ ipc' = IF board = "BEBOP" THEN "sensor_format"
                                       ELSE "get_pixel_formats"
          /\ UNCHANGED init_error
       \/ /\ init_error' = "open_device"
          /\ ipc' = "panic"
    /\ UNCHANGED << run_vars, board, init_locals, config, hw_geometry,
                    buffers_allocated, thread_started, _initialized,
                    thread_vars >>

\* lines 77-91 (BEBOP): the camera sensor is set up and NV12 asked for
SensorSetFormat ==
    /\ SetupRunning
    /\ ipc = "sensor_format"
    /\ \/ /\ _format' = "NV12"
          /\ ipc' = "set_format"
          /\ UNCHANGED init_error
       \/ /\ init_error' = "subdev_format"
          /\ ipc' = "panic"
          /\ UNCHANGED _format
    /\ UNCHANGED << run_vars, board, init_locals, _width, _height,
                    _shrink_by_software, _crop_by_software,
                    _camera_output_width, _camera_output_height,
                    hw_geometry, buffers_allocated, thread_started,
                    _initialized, thread_vars >>

\* lines 94-96 (MINLURE, BBBMINI): the device lists its pixel formats
GetPixelFormats ==
    /\ SetupRunning
    /\ ipc = "get_pixel_formats"
    /\ pixel_formats' \in FormatLists
    /\ px_idx' = 1
    /\ ipc' = "select_format"
    /\ UNCHANGED << run_vars, board, config, init_progress, thread_vars >>

\* SelectFormat without the break of line 101: the loop goes on after an
\* NV12 or GREY entry
SelectFormatNoBreak ==
    /\ SetupRunning
    /\ ipc = "select_format"
    /\ IF px_idx > Len(pixel_formats)
       THEN /\ ipc' = "set_format"
            /\ UNCHANGED << _format, px_idx >>
       ELSE /\ _format' = IF pixel_formats[px_idx] \in SupportedFormats
                             THEN pixel_formats[px_idx]
                             ELSE _format
            /\ px_idx' = px_idx + 1
            /\ UNCHANGED ipc
    /\ UNCHANGED << run_vars, board, pixel_formats, _width, _height,
                    _shrink_by_software, _crop_by_software,
                    _camera_output_width, _camera_output_height,
                    init_progress, thread_vars >>

\* lines 98-109: one turn of the range-for over the listed formats
SelectFormat ==
    /\ SetupRunning
    /\ ipc = "select_format"
    /\ IF px_idx > Len(pixel_formats)
       THEN /\ ipc' = "set_format"
            /\ UNCHANGED << _format, px_idx >>
       ELSE IF pixel_formats[px_idx] \in {"NV12", "GREY"}
       THEN /\ _format' = pixel_formats[px_idx]
            /\ ipc' = "set_format"
            /\ UNCHANGED px_idx
       ELSE /\ _format' = IF pixel_formats[px_idx] = "YUYV"
                             THEN pixel_formats[px_idx]
                             ELSE _format
            /\ px_idx' = px_idx + 1
            /\ UNCHANGED ipc
    /\ UNCHANGED << run_vars, board, pixel_formats, _width, _height,
                    _shrink_by_software, _crop_by_software,
                    _camera_output_width, _camera_output_height,
                    init_progress, thread_vars >>

\* lines 112-115: the device answers with the geometry and the format it
\* will deliver, or refuses; the list of formats is not read again
SetFormat ==
    /\ SetupRunning
    /\ ipc = "set_format"
    /\ \/ /\ \E g \in HardwareGeometries :
                /\ _width' = g[1]
                /\ _height' = g[2]
                /\ hw_geometry' = g
          /\ _format' \in PixelFormats
          /\ ipc' = "check_format"
          /\ UNCHANGED init_error
       \/ /\ init_error' = "set_format"
          /\ ipc' = "panic"
          /\ UNCHANGED << _width, _height, _format, hw_geometry >>
    /\ pixel_formats' = << >>
    /\ px_idx' = 1
    /\ UNCHANGED << run_vars, board, _shrink_by_software,
                    _crop_by_software, _camera_output_width,
                    _camera_output_height, buffers_allocated,
                    thread_started, _initialized, thread_vars >>

\* CheckFormat letting every format through
CheckFormatAcceptsAll ==
    /\ SetupRunning
    /\ ipc = "check_format"
    /\ ipc' = "select_shrink"
    /\ UNCHANGED init_error
    /\ UNCHANGED << run_vars, board, init_locals, config, hw_geometry,
                    buffers_allocated, thread_started, _initialized,
                    thread_vars >>

\* lines 117-120
CheckFormat ==
    /\ SetupRunning
    /\ ipc = "check_format"
    /\ IF _format # "NV12" /\ _format # "GREY" /\ _format # "YUYV"
       THEN /\ init_error' = "format"
            /\ ipc' = "panic"
       ELSE /\ ipc' = "select_shrink"
            /\ UNCHANGED init_error
    /\ UNCHANGED << run_vars, board, init_locals, config, hw_geometry,
                    buffers_allocated, thread_started, _initialized,
                    thread_vars >>

\* lines 122-137: a reported geometry other than the target selects the
\* software shrink; the members then carry the target geometry again
SelectShrink ==
    /\ SetupRunning
    /\ ipc = "select_shrink"
    /\ IF _width = HAL_OPTFLOW_ONBOARD_OUTPUT_WIDTH
          /\ _height = HAL_OPTFLOW_ONBOARD_OUTPUT_HEIGHT
       THEN /\ _shrink_by_software' = FALSE
            /\ UNCHANGED << _camera_output_width, _camera_output_height,
                            _width, _height >>
       ELSE /\ _shrink_by_software' = TRUE
            /\ _camera_output_width' = _width
            /\ _camera_output_height' = _height
            /\ _width' = HAL_OPTFLOW_ONBOARD_OUTPUT_WIDTH
            /\ _height' = HAL_OPTFLOW_ONBOARD_OUTPUT_HEIGHT
    /\ ipc' = "set_crop"
    /\ UNCHANGED << run_vars, board, init_locals, _format,
                    _crop_by_software, init_progress, thread_vars >>

\* lines 139-156: the device crops by itself, or the crop is left to
\* software
SetCrop ==
    /\ SetupRunning
    /\ ipc = "set_crop"
    /\ \/ /\ _crop_by_software' = FALSE
          /\ UNCHANGED << _camera_output_width, _camera_output_height,
                          _width, _height >>
       \/ /\ _crop_by_software' = TRUE
          /\ IF ~ _shrink_by_software
             THEN /\ _camera_output_width' = _width
                  /\ _camera_output_height' = _height
                  /\ _width' = HAL_OPTFLOW_ONBOARD_OUTPUT_WIDTH
                  /\ _height' = HAL_OPTFLOW_ONBOARD_OUTPUT_HEIGHT
             ELSE UNCHANGED << _camera_output_width,
                               _camera_output_height, _width, _height >>
    /\ ipc' = "allocate_buffers"
    /\ UNCHANGED << run_vars, board, init_locals, _format,
                    _shrink_by_software, init_progress, thread_vars >>

\* lines 158-160
AllocateBuffers ==
    /\ SetupRunning
    /\ ipc = "allocate_buffers"
    /\ \/ /\ buffers_allocated' = TRUE
          /\ ipc' = "mutex_init"
          /\ UNCHANGED init_error
       \/ /\ init_error' = "allocate_buffers"
          /\ ipc' = "panic"
          /\ UNCHANGED buffers_allocated
    /\ UNCHANGED << run_vars, board, init_locals, config, hw_geometry,
                    thread_started, _initialized, thread_vars >>

\* lines 162-175: capture prepared, the flow estimator made, the mutex
\* initialised
MutexInit ==
    /\ SetupRunning
    /\ ipc = "mutex_init"
    /\ \/ /\ ipc' = "attr_init"
          /\ UNCHANGED init_error
       \/ /\ init_error' = "mutex_init"
          /\ ipc' = "panic"
    /\ UNCHANGED << run_vars, board, init_locals, config, hw_geometry,
                    buffers_allocated, thread_started, _initialized,
                    thread_vars >>

\* lines 177-180
AttrInit ==
    /\ SetupRunning
    /\ ipc = "attr_init"
    /\ \/ /\ ipc' = "create_thread"
          /\ UNCHANGED init_error
       \/ /\ init_error' = "attr_init"
          /\ ipc' = "panic"
    /\ UNCHANGED << run_vars, board, init_locals, config, hw_geometry,
                    buffers_allocated, thread_started, _initialized,
                    thread_vars >>

\* lines 181-187: pthread_create starts _read_thread, which enters
\* _run_optflow (lines 219-225)
CreateThread ==
    /\ SetupRunning
    /\ ipc = "create_thread"
    /\ \/ /\ thread_started' = TRUE
          /\ tpc' = "convert_buffer"
          /\ ipc' = "mark_initialized"
          /\ UNCHANGED init_error
       \/ /\ init_error' = "create_thread"
          /\ ipc' = "panic"
          /\ UNCHANGED << thread_started, tpc >>
    /\ UNCHANGED << run_vars, board, init_locals, config, hw_geometry,
                    buffers_allocated, _initialized, shrink_crop_params,
                    normalized >>

\* line 189
MarkInitialized ==
    /\ SetupRunning
    /\ ipc = "mark_initialized"
    /\ _initialized' = TRUE
    /\ ipc' = "done"
    /\ UNCHANGED << run_vars, board, init_locals, config, init_error,
                    hw_geometry, buffers_allocated, thread_started,
                    thread_vars >>

InitSteps ==
    \/ InitEnter \/ OpenDevice \/ SensorSetFormat \/ GetPixelFormats
    \/ SelectFormat \/ SetFormat \/ CheckFormat \/ SelectShrink
    \/ SetCrop \/ AllocateBuffers \/ MutexInit \/ AttrInit
    \/ CreateThread \/ MarkInitialized

(* ------------- _run_optflow up to the flow computation ---------------- *)

\* (a - b) / 2 in uint32_t arithmetic: a difference below zero wraps to
\* 2^32 - (b - a) before it is halved
HalfDiff32(a, b) ==
    IF a >= b THEN (a - b) \div 2
              ELSE 2147483647 - ((b - a - 1) \div 2)

\* VideoIn::shrink_8bpp: the selection of the frame at (left, top) is
\* reduced block by block, fx by fy pixels giving one
shrink_8bpp(width, height, left, selection_width, top, selection_height, fx, fy) ==
    [left |-> left, top |-> top,
     sel_width |-> selection_width, sel_height |-> selection_height,
     out_width |-> IF fx = 0 THEN 0 ELSE selection_width \div fx,
     out_height |-> IF fy = 0 THEN 0 ELSE selection_height \div fy]

\* VideoIn::crop_8bpp: the window of the frame at (left, top) is copied
crop_8bpp(width, left, crop_width, top, crop_height) ==
    [left |-> left, top |-> top,
     sel_width |-> crop_width, sel_height |-> crop_height,
     out_width |-> crop_width, out_height |-> crop_height]

\* lines 240-252: the scratch buffer of the conversion to grey
AllocConvertBuffer ==
    /\ SetupRunning
    /\ tpc = "convert_buffer"
    /\ IF _format = "YUYV"
       THEN tpc' \in {"output_buffer", "panic"}
       ELSE tpc' = "output_buffer"
    /\ UNCHANGED << run_vars, board, ipc, init_locals, config,
                    init_progress, shrink_crop_params, normalized >>

\* lines 254-265: the buffer the shrink or the crop writes to
AllocOutputBuffer ==
    /\ SetupRunning
    /\ tpc = "output_buffer"
    /\ IF _shrink_by_software \/ _crop_by_software
       THEN tpc' \in {"shrink_crop_params", "panic"}
       ELSE tpc' = "shrink_crop_params"
    /\ UNCHANGED << run_vars, board, ipc, init_locals, config,
                    init_progress, shrink_crop_params, normalized >>

\* ShrinkCropParams taking the factor of the larger side
ShrinkCropParamsLargerSide ==
    /\ SetupRunning
    /\ tpc = "shrink_crop_params"
    /\ IF _shrink_by_software
       THEN /\ shrink_scale' =
                   IF _camera_output_width < _camera_output_height
                   THEN _camera_output_height
                            \div HAL_OPTFLOW_ONBOARD_OUTPUT_HEIGHT
                   ELSE _camera_output_width
                            \div HAL_OPTFLOW_ONBOARD_OUTPUT_WIDTH
            /\ shrink_width' =
                   HAL_OPTFLOW_ONBOARD_OUTPUT_WIDTH * shrink_scale'
            /\ shrink_height' =
                   HAL_OPTFLOW_ONBOARD_OUTPUT_HEIGHT * shrink_scale'
            /\ shrink_width_offset' =
                   HalfDiff32(_camera_output_width, shrink_width')
            /\ shrink_height_offset' =
                   HalfDiff32(_camera_output_height, shrink_height')
            /\ UNCHANGED << crop_left, crop_top >>
       ELSE IF _crop_by_software
       THEN /\ crop_left' = _camera_output_width \div 2
                                - HAL_OPTFLOW_ONBOARD_OUTPUT_WIDTH \div 2
            /\ crop_top' = _camera_output_height \div 2
                               - HAL_OPTFLOW_ONBOARD_OUTPUT_HEIGHT \div 2
            /\ UNCHANGED << shrink_scale, shrink_width, shrink_height,
                            shrink_width_offset, shrink_height_offset >>
       ELSE UNCHANGED shrink_crop_params
    /\ tpc' = "get_frame"
    /\ UNCHANGED << run_vars, board, ipc, init_locals, config,
                    init_progress, normalized >>

\* lines 267-286: the factor, the region and the offsets of the shrink, or
\* the corner of the crop window.  Only-crop is selected with the camera
\* output at the target geometry (lines 143-149), so the differences of
\* lines 282-285 are never below zero.
ShrinkCropParams ==
    /\ SetupRunning
    /\ tpc = "shrink_crop_params"
    /\ IF _shrink_by_software
       THEN /\ shrink_scale' =
                   IF _camera_output_width > _camera_output_height
                   THEN _camera_output_height
                            \div HAL_OPTFLOW_ONBOARD_OUTPUT_HEIGHT
                   ELSE _camera_output_width
                            \div HAL_OPTFLOW_ONBOARD_OUTPUT_WIDTH
            /\ shrink_width' =
                   HAL_OPTFLOW_ONBOARD_OUTPUT_WIDTH * shrink_scale'
            /\ shrink_height' =
                   HAL_OPTFLOW_ONBOARD_OUTPUT_HEIGHT * shrink_scale'
            /\ shrink_width_offset' =
                   HalfDiff32(_camera_output_width, shrink_width')
            /\ shrink_height_offset' =
                   HalfDiff32(_camera_output_height, shrink_height')
            /\ UNCHANGED << crop_left, crop_top >>
       ELSE IF _crop_by_software
       THEN /\ crop_left' = _camera_output_width \div 2
                                - HAL_OPTFLOW_ONBOARD_OUTPUT_WIDTH \div 2
            /\ crop_top' = _camera_output_height \div 2
                               - HAL_OPTFLOW_ONBOARD_OUTPUT_HEIGHT \div 2
            /\ UNCHANGED << shrink_scale, shrink_width, shrink_height,
                            shrink_width_offset, shrink_height_offset >>
       ELSE UNCHANGED shrink_crop_params
    /\ tpc' = "get_frame"
    /\ UNCHANGED << run_vars, board, ipc, init_locals, config,
                    init_progress, normalized >>

\* the conversion of lines 302-308, where the format asks for it
GreyConversion == IF _format = "YUYV" THEN {"yuyv_to_grey"} ELSE {}

\* a frame of the target geometry given on as it is
Untouched ==
    [left |-> 0, top |-> 0, sel_width |-> _width, sel_height |-> _height,
     out_width |-> _width, out_height |-> _height]

\* the shrink of lines 313-317
Shrunk ==
    shrink_8bpp(_camera_output_width, _camera_output_height,
                shrink_width_offset, shrink_width,
                shrink_height_offset, shrink_height,
                shrink_scale, shrink_scale)

\* the crop of lines 321-324
Cropped ==
    crop_8bpp(_camera_output_width,
              crop_left, HAL_OPTFLOW_ONBOARD_OUTPUT_WIDTH,
              crop_top, HAL_OPTFLOW_ONBOARD_OUTPUT_HEIGHT)

\* output_buffer_size (lines 255-256), the pixels copied back to the frame
OutputBufferSize ==
    HAL_OPTFLOW_ONBOARD_OUTPUT_WIDTH * HAL_OPTFLOW_ONBOARD_OUTPUT_HEIGHT

\* NormalizeFrame with the crop tested on its own, not as the else of the
\* shrink
NormalizeFrameBoth ==
    /\ SetupRunning
    /\ tpc = "get_frame"
    /\ normalized' =
          IF _shrink_by_software /\ _crop_by_software
          THEN [strategy |-> "crop",
                applied |-> GreyConversion \cup {"shrink_8bpp", "crop_8bpp"},
                region |-> Cropped, size |-> OutputBufferSize]
          ELSE IF _shrink_by_software
          THEN [strategy |-> "shrink",
                applied |-> GreyConversion \cup {"shrink_8bpp"},
                region |-> Shrunk, size |-> OutputBufferSize]
          ELSE IF _crop_by_software
          THEN [strategy |-> "crop",
                applied |-> GreyConversion \cup {"crop_8bpp"},
                region |-> Cropped, size |-> OutputBufferSize]
          ELSE [strategy |-> "direct", applied |-> GreyConversion,
                region |-> Untouched, size |-> _width * _height]
    /\ tpc' = "flow"
    /\ UNCHANGED << run_vars, board, ipc, init_locals, config,
                    init_progress, shrink_crop_params >>

\* lines 302-328: a frame the device delivered is made grey where needed,
\* then shrunk, or else cropped, or else left as it is, and goes on to
\* the flow computation
NormalizeFrame ==
    /\ SetupRunning
    /\ tpc = "get_frame"
    /\ normalized' =
          IF _shrink_by_software
          THEN [strategy |-> "shrink",
                applied |-> GreyConversion \cup {"shrink_8bpp"},
                region |-> Shrunk, size |-> OutputBufferSize]
          ELSE IF _crop_by_software
          THEN [strategy |-> "crop",
                applied |-> GreyConversion \cup {"crop_8bpp"},
                region |-> Cropped, size |-> OutputBufferSize]
          ELSE [strategy |-> "direct", applied |-> GreyConversion,
                region |-> Untouched, size |-> _width * _height]
    /\ tpc' = "flow"
    /\ UNCHANGED << run_vars, board, ipc, init_locals, config,
                    init_progress, shrink_crop_params >>

ThreadSteps ==
    \/ AllocConvertBuffer \/ AllocOutputBuffer \/ ShrinkCropParams
    \/ NormalizeFrame

SetupNext == InitSteps \/ ThreadSteps

\* init() called once on a constructed driver, and the thread it starts
\* up to its first flow computation
SetupSpec == SetupInit /\ [][SetupNext]_vars

(* ------------------ what one iteration contributes -------------------- *)

\* lines 373-385: the terms one iteration adds, from what it computed with
Term(it) ==
    [pixel_flow_x_integral |->
         it.flow_x \div HAL_FLOW_PX4_FOCAL_LENGTH_MILLIPX,
     pixel_flow_y_integral |->
         it.flow_y \div HAL_FLOW_PX4_FOCAL_LENGTH_MILLIPX,
     gyro_x_integral |->
         ((it.gyro.x + it.last_gyro.x) \div 2) * (it.cur_ts - it.last_ts),
     gyro_y_integral |->
         ((it.gyro.y + it.last_gyro.y) \div 2) * (it.cur_ts - it.last_ts),
     delta_time |-> it.cur_ts - it.last_ts]

\* the five accumulated fields of a Data_Frame-shaped record
Sums(r) ==
    [pixel_flow_x_integral |-> r.pixel_flow_x_integral,
     pixel_flow_y_integral |-> r.pixel_flow_y_integral,
     gyro_x_integral |-> r.gyro_x_integral,
     gyro_y_integral |-> r.gyro_y_integral,
     delta_time |-> r.delta_time]

AddSums(a, b) ==
    [pixel_flow_x_integral |->
         a.pixel_flow_x_integral + b.pixel_flow_x_integral,
     pixel_flow_y_integral |->
         a.pixel_flow_y_integral + b.pixel_flow_y_integral,
     gyro_x_integral |-> a.gyro_x_integral + b.gyro_x_integral,
     gyro_y_integral |-> a.gyro_y_integral + b.gyro_y_integral,
     delta_time |-> a.delta_time + b.delta_time]

\* the terms of iterations its[lo..hi], added up
RECURSIVE SumTerms(_, _, _)
SumTerms(its, lo, hi) ==
    IF hi < lo THEN Sums(BlankFrame)
    ELSE AddSums(SumTerms(its, lo, hi - 1), Term(its[hi]))

\* read() has filled the caller's record and not yet returned
RecordFilled ==
    \/ rpc \in {"zero_timespan", "zero_flow_x", "zero_flow_y", "zero_gyro_x",
                "zero_gyro_y", "clear_available", "set_ret"}
    \/ rpc = "unlock" /\ ret

\* read() is about to return true
ReturningData == rpc = "unlock" /\ ret

\* read() is about to return false
ReturningEmpty == rpc = "unlock" /\ ~ ret

(* ------------------------------- C1 ----------------------------------- *)

\* C1: a record filled by read() never holds part of an iteration: there
\* is a number k of pending iterations such that every accumulated field of
\* the record is the sum of the terms of exactly the first k of them, and
\* its quality is the k-th's; the dirty flag read() saw belongs to them too
\* (k is at least 1).
C1_NoPartialIteration ==
    RecordFilled =>
        \E k \in 1..Len(pending) :
            /\ Sums(frame) = SumTerms(pending, 1, k)
            /\ frame.quality = pending[k].qual

\* a drained record covering two iterations with different gyro terms
C1_Witness ==
    /\ ReturningData
    /\ seen = 2
    /\ Term(pending[1]).gyro_x_integral # Term(pending[2]).gyro_x_integral
    /\ Sums(frame) = SumTerms(pending, 1, 2)

(* ------------------------------- C2 ----------------------------------- *)

\* C2: every iteration is drained exactly once and every successful read()
\* covers at least one.  With the mutex free the integrator holds exactly
\* the pending iterations; a read() about to return true hands out exactly
\* the iterations that were pending when it took the lock, at least one,
\* and leaves exactly the later ones in the integrator.
C2_ExactlyOnce ==
    /\ _mutex = "free" =>
           Sums(Integrator) = SumTerms(pending, 1, Len(pending))
    /\ ReturningData =>
           /\ seen >= 1
           /\ Sums(frame) = SumTerms(pending, 1, seen)
           /\ Sums(Integrator) = SumTerms(pending, seen + 1, Len(pending))

\* a second successful drain, after an earlier one took the first iteration
C2_Witness ==
    /\ ReturningData
    /\ nreads = 2
    /\ naccum = 2
    /\ seen = 1

(* ------------------------------- C3 ----------------------------------- *)

\* C3: a read() that finds the dirty flag unset goes straight to its
\* return, returns false, and none of its steps (taking the lock, the test,
\* the unlock and return) changes the integrator or the caller's record.
C3_EmptyReadChangesNothing ==
    [][ /\ (rpc = "lock" /\ rpc' # rpc) =>
               UNCHANGED << integ, frame >>
        /\ (rpc = "check" /\ ~ _data_available /\ rpc' # rpc) =>
               /\ rpc' = "unlock"
               /\ ret' = FALSE
               /\ UNCHANGED << integ, frame, _mutex >>
        /\ (ReturningEmpty /\ rpc' # rpc) =>
               /\ rpc' = "idle"
               /\ ret' = FALSE
               /\ _mutex' = "free"
               /\ UNCHANGED << integ, frame >> ]_vars

\* an empty read() whose caller's record still holds an earlier drain
C3_Witness ==
    /\ ReturningEmpty
    /\ ~ at_lock.available
    /\ frame.delta_time > 0

(* ------------------------------- C4 ----------------------------------- *)

\* C4: a read() that found the dirty flag set when it took the lock
\* returns true with the six fields as they were at that moment, and at its
\* return the four numeric accumulators are zero and the flag is cleared.
C4_DrainReturnsSnapshot ==
    [][ (rpc = "unlock" /\ rpc' = "idle" /\ at_lock.available) =>
            /\ ret' = TRUE
            /\ frame' = at_lock.rec
            /\ _pixel_flow_x_integral' = 0
            /\ _pixel_flow_y_integral' = 0
            /\ _gyro_x_integral' = 0
            /\ _gyro_y_integral' = 0
            /\ _data_available' = FALSE ]_vars

\* a returned record with six non-trivial fields, the integrator cleared
C4_Witness ==
    /\ rpc = "idle"
    /\ ret
    /\ at_lock.available
    /\ frame = at_lock.rec
    /\ frame.pixel_flow_x_integral # 0
    /\ frame.pixel_flow_y_integral # 0
    /\ frame.gyro_x_integral # 0
    /\ frame.gyro_y_integral # 0
    /\ frame.gyro_x_integral # frame.gyro_y_integral
    /\ frame.quality # 0
    /\ ~ _data_available

(* ------------------------------- C5 ----------------------------------- *)

\* read() has returned true and no iteration has taken the lock since
DrainedAndQuiet == nreads > 0 /\ rpc = "idle" /\ ret /\ ~ iter_since_read

\* C5 as stated: after a successful drain the whole integrator is zeroed,
\* the latest quality score included, until the next iteration accumulates.
C5_DrainZeroesWholeState ==
    DrainedAndQuiet =>
        /\ _pixel_flow_x_integral = 0
        /\ _pixel_flow_y_integral = 0
        /\ _gyro_x_integral = 0
        /\ _gyro_y_integral = 0
        /\ _integration_timespan = 0
        /\ _surface_quality = 0
        /\ ~ _data_available

\* C5 as amended: after a successful drain the five accumulators (flow x
\* and y, gyro x and y, elapsed time) are zero and the dirty flag is unset
\* until the next iteration accumulates; the quality score is left as the
\* last iteration set it.
C5_DrainZeroesAccumulators ==
    DrainedAndQuiet =>
        /\ _pixel_flow_x_integral = 0
        /\ _pixel_flow_y_integral = 0
        /\ _gyro_x_integral = 0
        /\ _gyro_y_integral = 0
        /\ _integration_timespan = 0
        /\ ~ _data_available
        /\ _surface_quality = frame.quality

\* after a drain of non-zero gyro integrals, the quality still standing
C5_Witness ==
    /\ DrainedAndQuiet
    /\ frame.gyro_x_integral # 0
    /\ frame.gyro_y_integral # 0
    /\ _surface_quality # 0

(* ------------------------------- C6 ----------------------------------- *)

RECURSIVE SumElapsed(_, _)
\* the elapsed times of the first n pending iterations, added up
SumElapsed(its, n) ==
    IF n = 0 THEN 0
    ELSE SumElapsed(its, n - 1) + (its[n].cur_ts - its[n].last_ts)

RECURSIVE SumFlow(_, _, _)
\* the flow terms (axis "x" or "y") of the first n pending iterations
SumFlow(its, n, axis) ==
    IF n = 0 THEN 0
    ELSE SumFlow(its, n - 1, axis) +
         (IF axis = "x" THEN its[n].flow_x ELSE its[n].flow_y)
             \div HAL_FLOW_PX4_FOCAL_LENGTH_MILLIPX

RECURSIVE SumTrapezoid(_, _, _)
\* the trapezoidal gyro terms (axis "x" or "y") of the first n iterations
SumTrapezoid(its, n, axis) ==
    IF n = 0 THEN 0
    ELSE SumTrapezoid(its, n - 1, axis) +
         ((its[n].gyro[axis] + its[n].last_gyro[axis]) \div 2) *
             (its[n].cur_ts - its[n].last_ts)

\* C6: N iterations without a drain in between add up.  While read() holds
\* the lock and has not begun to zero, the integrator is the sum of the N
\* pending iterations' elapsed times, flow terms and trapezoidal terms; and
\* the record of a read() about to return true is that sum.
C6_Additive ==
    /\ rpc \in {"check", "copy_flow_x"} =>
           /\ seen = Len(pending)
           /\ _integration_timespan = SumElapsed(pending, seen)
           /\ _pixel_flow_x_integral = SumFlow(pending, seen, "x")
           /\ _pixel_flow_y_integral = SumFlow(pending, seen, "y")
           /\ _gyro_x_integral = SumTrapezoid(pending, seen, "x")
           /\ _gyro_y_integral = SumTrapezoid(pending, seen, "y")
    /\ ReturningData =>
           /\ frame.delta_time = SumElapsed(pending, seen)
           /\ frame.pixel_flow_x_integral = SumFlow(pending, seen, "x")
           /\ frame.pixel_flow_y_integral = SumFlow(pending, seen, "y")
           /\ frame.gyro_x_integral = SumTrapezoid(pending, seen, "x")
           /\ frame.gyro_y_integral = SumTrapezoid(pending, seen, "y")

\* one record for two iterations of different lengths
C6_Witness ==
    /\ ReturningData
    /\ seen = 2
    /\ frame.delta_time = 3
    /\ frame.gyro_x_integral # 0

(* ------------------------------- C7 ----------------------------------- *)

\* C7: a read() that follows another read() with no iteration in between
\* returns false, whatever the earlier one returned.
C7_SecondReadEmpty ==
    (rpc = "unlock" /\ nreads >= 2 /\ ~ iter_since_read) => ret = FALSE

\* the second of two reads, the first of which had drained a record
C7_Witness ==
    /\ rpc = "unlock"
    /\ nreads >= 2
    /\ ~ iter_since_read
    /\ frame.delta_time > 0
    /\ naccum > 0

(* ------------------------------- C8 ----------------------------------- *)

\* C8: the first frame is only cached: no flow computation, the integrator
\* untouched, read() empty.  From then on every frame gives exactly one
\* computation and one accumulation, and the loop keeps a previous frame.
C8_Warmup ==
    /\ nframes <= 1 =>
           /\ ncompute = 0
           /\ naccum = 0
           /\ Integrator = BlankFrame
           /\ ~ _data_available
           /\ (rpc = "unlock" => ~ ret)
    /\ (nframes = 1 /\ apc = "get_frame") =>
           _last_video_frame.data = 1
    /\ (nframes >= 1 /\ apc = "get_frame") =>
           /\ ncompute = nframes - 1
           /\ naccum = nframes - 1
           /\ _last_video_frame.data # NULL
    /\ (nframes >= 1 /\ apc = "panic") =>
           /\ ncompute = nframes - 1
           /\ naccum = nframes - 1

\* the loop back at its top after the third frame
C8_Witness ==
    /\ apc = "get_frame"
    /\ nframes = 3
    /\ ncompute = 2
    /\ naccum = 2

(* ------------------------------- C9 ----------------------------------- *)

\* every step of the acquisition thread but the wait for a frame
AcquisitionBody ==
    \/ WarmupCheck \/ GetGyro \/ ComputeFlow
    \/ AcqLock \/ AccFlowX \/ AccFlowY \/ AccTimespan \/ AccGyroX
    \/ AccGyroY \/ SetQuality \/ SetAvailable \/ AcqUnlock
    \/ PutFrame \/ Promote

\* both threads are scheduled; the Frame Source need not deliver
LiveSpec ==
    /\ Init /\ [][Next]_vars
    /\ WF_run_vars(Read) /\ WF_run_vars(AcquisitionBody)

\* C9: the acquisition thread never holds the mutex while it waits for a
\* frame (or after the fatal error), and every read() call returns, unless
\* the fatal error ends the process first, even if no frame ever comes.
C9_ReadReturns ==
    /\ [](apc \in {"get_frame", "warmup", "get_gyro",
                   "compute_flow", "lock", "put_frame", "promote", "panic"}
              => _mutex # "acq")
    /\ (rpc # "idle") ~> (rpc = "idle" \/ ~ Running)

\* a read() returned while the loop waits for a frame that never comes
C9_Witness ==
    /\ rpc = "idle"
    /\ nreads = MaxReads
    /\ apc = "get_frame"
    /\ nframes = MaxFrames
    /\ _mutex = "free"

(* ------------------------------- C10 ---------------------------------- *)

\* C10: whenever the loop adds a gyro term, the previous angular rate it
\* averages with is the one the gyro callback gave when the cached
\* previous frame was processed.
C10_PreviousRateWasSampled ==
    apc \in {"acc_gyro_x", "acc_gyro_y"} =>
        gyro_of = _last_video_frame.data

(* ------------------------------ C11 ----------------------------------- *)

\* the frames the loop has got from the Frame Source and not given back
Held == {d \in 1..nframes : d \notin released}

\* C11: every frame is given back with put_frame at most once, and only
\* after compute_flow has had it as its previous frame and with a newer
\* frame in hand; the frames the loop still reads or writes (the current
\* frame, and the cached one up to its release) have not been given back;
\* the loop never holds more than two frames that it has not given back.
C11_FrameOwnership ==
    /\ [](/\ Cardinality(Held) <= 2
          /\ released \subseteq served
          /\ video_frame.data \notin released
          /\ apc # "promote" => _last_video_frame.data \notin released)
    /\ [][released' # released \/ (apc = "put_frame" /\ apc' = "promote")
            => /\ _last_video_frame.data \notin released
               /\ released' = released \cup {_last_video_frame.data}
               /\ _last_video_frame.data \in served
               /\ video_frame.data \in Held
               /\ video_frame.data > _last_video_frame.data]_vars

\* two frames given back, one after the other, the third being cached
C11_Witness ==
    /\ released = {1, 2}
    /\ Held = {3}
    /\ _last_video_frame.data = 3
    /\ apc = "get_frame"

(* ------------------------------ C17 ----------------------------------- *)

\* C17: a failure of get_frame, whatever the loop has done before, ends
\* the loop for good: from then on it computes no flow, samples no gyro,
\* changes no integrator field and gives no frame back, and it never
\* leaves the stopped position; while running, the loop stops for no
\* other reason than such a failure.
C17_GetFrameFailureFatal ==
    /\ [](get_frame_failed <=> apc = "panic")
    /\ [][get_frame_failed
            => UNCHANGED << integ, cache, acq_locals, apc, source_vars,
                            history >>]_vars
    /\ [][apc' = "panic" /\ apc # "panic"
            => /\ apc = "get_frame"
               /\ get_frame_failed'
               /\ UNCHANGED << integ, cache, acq_locals, released,
                               history >>]_vars

\* get_frame has failed in steady state, with an accumulation not yet
\* drained
C17_Witness ==
    /\ get_frame_failed
    /\ apc = "panic"
    /\ _last_video_frame.data # NULL
    /\ naccum >= 1
    /\ _data_available

(* ------------------------------ C18 ----------------------------------- *)

\* C18: the stored quality is the score of the latest iteration alone,
\* not a sum over iterations: with the mutex free and iterations pending
\* it is the last pending iteration's score, and a read() about to return
\* true hands out the score of the last iteration that accumulated before
\* it took the lock (after a single iteration, that iteration's score).
C18_QualityIsLatest ==
    /\ (_mutex = "free" /\ pending # << >>)
           => _surface_quality = pending[Len(pending)].qual
    /\ ReturningData
           => /\ seen >= 1
              /\ frame.quality = pending[seen].qual
              /\ _surface_quality = pending[seen].qual

\* a drain after two iterations with different scores hands out the second
C18_Witness ==
    /\ ReturningData
    /\ seen = 2
    /\ pending[1].qual # pending[2].qual
    /\ frame.quality = pending[2].qual

(* ------------------------------ C20 ----------------------------------- *)

\* the five accumulators of the integrator are all zero
AccumulatorsZero ==
    /\ _pixel_flow_x_integral = 0
    /\ _pixel_flow_y_integral = 0
    /\ _gyro_x_integral = 0
    /\ _gyro_y_integral = 0
    /\ _integration_timespan = 0

\* C20 as stated: in every reachable state an unset dirty flag comes with
\* accumulators that are all zero.
C20_UnsetMeansZero == ~ _data_available => AccumulatorsZero

\* C20: in every state in which the acquisition thread is not inside its
\* locked accumulation (so in every state read() can observe), an unset
\* dirty flag comes with accumulators that are all zero: no accumulated
\* data is hidden from read().
C20_UnsetMeansZeroOutsideAccumulation ==
    (_mutex # "acq" /\ ~ _data_available) => AccumulatorsZero

\* read() holds the lock and has found the flag unset after an earlier
\* drain took a non-zero accumulation
C20_Witness ==
    /\ _mutex = "reader"
    /\ rpc # "lock"
    /\ ~ ret
    /\ ~ _data_available
    /\ AccumulatorsZero
    /\ naccum >= 1
    /\ nreads = 2
    /\ frame.delta_time # 0

(* ------------------------------ C12 ----------------------------------- *)

\* the shrink and the crop functions among those applied to the frame
GeometryFunctions == normalized.applied \cap {"shrink_8bpp", "crop_8bpp"}

\* C12 as stated: once init() has returned, the software shrink and the
\* software crop are never both selected.
C12_SelectionsExclusive ==
    ipc = "done" => ~ (_shrink_by_software /\ _crop_by_software)

\* C12: every frame is normalised by exactly one strategy: it is shrunk
\* (and not cropped) whenever the software shrink is selected, be the
\* software crop selected too or not; cropped (and not shrunk) when only
\* the software crop is selected; left as delivered when neither is.
C12_OneStrategyApplied ==
    normalized # NoNorm =>
        /\ normalized.strategy \in {"direct", "shrink", "crop"}
        /\ Cardinality(GeometryFunctions) <= 1
        /\ normalized.strategy = "shrink" <=> _shrink_by_software
        /\ normalized.strategy = "crop"
               <=> (_crop_by_software /\ ~ _shrink_by_software)
        /\ normalized.strategy = "direct"
               <=> (~ _shrink_by_software /\ ~ _crop_by_software)
        /\ "shrink_8bpp" \in normalized.applied
               <=> normalized.strategy = "shrink"
        /\ "crop_8bpp" \in normalized.applied
               <=> normalized.strategy = "crop"

\* both selections made by init(), and the frame shrunk only
C12_Witness ==
    /\ ipc = "done"
    /\ _shrink_by_software
    /\ _crop_by_software
    /\ normalized # NoNorm
    /\ GeometryFunctions = {"shrink_8bpp"}

(* ------------------------------ C13 ----------------------------------- *)

\* the region the normalisation read lies inside the hardware frame
RegionInsideFrame ==
    /\ normalized.region.left >= 0
    /\ normalized.region.top >= 0
    /\ normalized.region.left + normalized.region.sel_width
           <= hw_geometry[1]
    /\ normalized.region.top + normalized.region.sel_height
           <= hw_geometry[2]

\* C13 as stated: whatever geometry the hardware reported and whichever
\* strategy was applied, the normalised frame is target width by target
\* height pixels, each made from pixels of a region inside the hardware
\* frame: for the shrink a region of the target size times the factor
\* reduced by the factor, for the crop a window of the target size.
C13_NormalizedIsTargetFromRealPixels ==
    normalized # NoNorm =>
        /\ normalized.size = OutputBufferSize
        /\ normalized.region.out_width = HAL_OPTFLOW_ONBOARD_OUTPUT_WIDTH
        /\ normalized.region.out_height = HAL_OPTFLOW_ONBOARD_OUTPUT_HEIGHT
        /\ RegionInsideFrame
        /\ normalized.strategy = "shrink" =>
               /\ shrink_scale >= 1
               /\ normalized.region.sel_width =
                      HAL_OPTFLOW_ONBOARD_OUTPUT_WIDTH * shrink_scale
               /\ normalized.region.sel_height =
                      HAL_OPTFLOW_ONBOARD_OUTPUT_HEIGHT * shrink_scale
        /\ normalized.strategy = "crop" =>
               /\ normalized.region.sel_width =
                      HAL_OPTFLOW_ONBOARD_OUTPUT_WIDTH
               /\ normalized.region.sel_height =
                      HAL_OPTFLOW_ONBOARD_OUTPUT_HEIGHT

(* ------------------------------ C14 ----------------------------------- *)

\* the smaller of two numbers
Min(a, b) == IF a <= b THEN a ELSE b

\* C14: once the thread has computed its shrink parameters with the
\* software shrink selected, the factor is the smaller of the whole
\* quotients of the hardware width by the target width and of the
\* hardware height by the target height; hardware dimensions that are
\* the same multiple of the target give that multiple, and a hardware
\* frame of 320 by 240 gives 3 and the centred region of 192 by 192.
C14_ShrinkFactorIsMin ==
    (_shrink_by_software /\ tpc \in {"get_frame", "flow"}) =>
        /\ shrink_scale =
               Min(hw_geometry[1] \div HAL_OPTFLOW_ONBOARD_OUTPUT_WIDTH,
                   hw_geometry[2] \div HAL_OPTFLOW_ONBOARD_OUTPUT_HEIGHT)
        /\ \A k \in 1..8 :
               hw_geometry = << k * HAL_OPTFLOW_ONBOARD_OUTPUT_WIDTH,
                                k * HAL_OPTFLOW_ONBOARD_OUTPUT_HEIGHT >>
                   => shrink_scale = k
        /\ hw_geometry = << 320, 240 >> =>
               /\ shrink_scale = 3
               /\ shrink_width = 192
               /\ shrink_height = 192
               /\ shrink_width_offset = 64
               /\ shrink_height_offset = 24

\* a 320 by 240 frame shrunk by 3 from its centred 192 by 192 region
C14_Witness ==
    /\ hw_geometry = << 320, 240 >>
    /\ normalized # NoNorm
    /\ normalized.strategy = "shrink"
    /\ shrink_scale = 3
    /\ normalized.region.sel_width = 192
    /\ normalized.region.left = 64

(* ------------------------------ C15 ----------------------------------- *)

\* init() has made its two selections
StrategySelected ==
    ipc \in {"allocate_buffers", "mutex_init", "attr_init",
             "create_thread", "mark_initialized", "done"}

\* C15 as stated: the software shrink is selected only for a hardware
\* geometry larger than the target in both dimensions, and neither
\* shrink nor crop only for a hardware geometry equal to the target.
C15_ShrinkOnlyWhenLarger ==
    StrategySelected =>
        /\ _shrink_by_software =>
               /\ hw_geometry[1] > HAL_OPTFLOW_ONBOARD_OUTPUT_WIDTH
               /\ hw_geometry[2] > HAL_OPTFLOW_ONBOARD_OUTPUT_HEIGHT
        /\ (~ _shrink_by_software /\ ~ _crop_by_software) =>
               hw_geometry = << HAL_OPTFLOW_ONBOARD_OUTPUT_WIDTH,
                                HAL_OPTFLOW_ONBOARD_OUTPUT_HEIGHT >>

(* ------------------------------ C16 ----------------------------------- *)

\* C16: a fatal error of init() (the device not opened, the sensor or the
\* video format not set, a format other than NV12, GREY and YUYV, the
\* buffers not allocated, the mutex, the attributes or the thread not
\* created) stops init() where it happened and for good: the thread has
\* not been started and the driver is not marked initialised; with an
\* unsupported format no video buffer has been allocated, and nothing
\* later in init() is ever reached with one.
C16_FatalInitErrors ==
    /\ [](init_error # "none" =>
             /\ ipc = "panic"
             /\ ~ thread_started
             /\ tpc = "none"
             /\ ~ _initialized)
    /\ [](init_error \in {"open_device", "subdev_format", "set_format",
                          "format"} => ~ buffers_allocated)
    /\ []((StrategySelected \/ buffers_allocated \/ thread_started
              \/ _initialized) => _format \in SupportedFormats)
    /\ [][ipc = "panic" => UNCHANGED setup_vars]_vars

\* the device answered set_format with a format the driver does not
\* support, and init() has stopped on it
C16_Witness ==
    /\ init_error = "format"
    /\ ipc = "panic"
    /\ _format = "MJPG"
    /\ hw_geometry # << 0, 0 >>
    /\ ~ buffers_allocated
    /\ ~ thread_started
    /\ ~ _initialized

(* ------------------------------ C19 ----------------------------------- *)

\* the positions of the NV12 and GREY entries of a list of formats
DirectEntries(formats) ==
    {i \in 1..Len(formats) : formats[i] \in {"NV12", "GREY"}}

\* the first of a non-empty set of positions
First(positions) == CHOOSE i \in positions : \A j \in positions : i <= j

\* the range-for over the listed formats has ended
FormatSelected ==
    board # "BEBOP" /\ ipc = "set_format"

\* C19: when the loop over the listed formats has ended, if the list has
\* an NV12 or GREY entry the format is the first such entry, whatever the
\* order of the list; the format is YUYV only if the list has a YUYV entry
\* and neither an NV12 nor a GREY one, and then it is YUYV.
C19_FormatSelection ==
    FormatSelected =>
        /\ DirectEntries(pixel_formats) # {} =>
               _format = pixel_formats[First(DirectEntries(pixel_formats))]
        /\ _format = "YUYV" <=>
               /\ \E i \in 1..Len(pixel_formats) : pixel_formats[i] = "YUYV"
               /\ DirectEntries(pixel_formats) = {}

\* YUYV listed first, then GREY before NV12: GREY is selected
C19_Witness ==
    /\ FormatSelected
    /\ pixel_formats = << "YUYV", "GREY", "NV12" >>
    /\ _format = "GREY"

(* ------------------------------ C21 ----------------------------------- *)

\* the thread has computed its shrink parameters, the software shrink
\* being selected
ShrinkParamsComputed ==
    _shrink_by_software /\ tpc \in {"get_frame", "flow"}

\* the region of the shrink is no larger than the hardware frame, its
\* offsets are the halved differences with nothing wrapped, and it lies
\* inside the frame
ShrinkRegionInsideFrame ==
    /\ shrink_width = HAL_OPTFLOW_ONBOARD_OUTPUT_WIDTH * shrink_scale
    /\ shrink_height = HAL_OPTFLOW_ONBOARD_OUTPUT_HEIGHT * shrink_scale
    /\ shrink_width <= _camera_output_width
    /\ shrink_height <= _camera_output_height
    /\ shrink_width_offset = (_camera_output_width - shrink_width) \div 2
    /\ shrink_height_offset =
           (_camera_output_height - shrink_height) \div 2
    /\ shrink_width_offset + shrink_width <= _camera_output_width
    /\ shrink_height_offset + shrink_height <= _camera_output_height

\* C21 as stated: whenever the software shrink is selected, the factor
\* the thread computes is at least 1, the region of the target size times
\* the factor is no larger than the hardware frame in either dimension,
\* and the offsets are computed without unsigned underflow, so that the
\* region lies inside the hardware frame.
C21_ShrinkParamsWellFormed ==
    ShrinkParamsComputed =>
        /\ shrink_scale >= 1
        /\ ShrinkRegionInsideFrame

====
